---------------------------- MODULE Spec2Model ----------------------------
(***************************************************************************)
(* twitter-poll: the streaming ingestion pipeline of main.go / twitter.go. *)
(*                                                                         *)
(* Five goroutines share the package-level connection handle `conn`, the   *)
(* package-level `reader`, the lock-guarded flag `stop` and four channels: *)
(*   "M"  main                       (main.go 75-114)                      *)
(*   "L"  the signal listener        (main.go 80-88)                       *)
(*   "F"  the periodic refresher     (main.go 99-110)                      *)
(*   "R"  the stream reader          (twitter.go 170-190, 91-148, 33-44)   *)
(*   "P"  the publisher              (main.go 64-72)                       *)
(* Each goroutine is a program counter in pc; one action is one statement  *)
(* (or one access of shared state) of the source.                          *)
(*                                                                         *)
(* conn is read and written without a lock, so dial and closeConn are      *)
(* split at each of their accesses of conn and interleave freely; a        *)
(* conn.Close() that finds conn nil is a nil dereference, which ends the   *)
(* process (proc = "panic"), as do log.Fatalln (proc = "fatal") and the    *)
(* return of main (proc = "exited"). The package-level reader is never     *)
(* assigned: twitter.go 125 declares a local of the same name.             *)
(* Critical sections of stoplock are one statement long and are one step.  *)
(* Sleeps are untimed: a sleeping goroutine may wake at any moment.        *)
(***************************************************************************)
EXTENDS Naturals, Sequences, FiniteSets

\* ------------------------------------------------------------- bounds
\* connection attempts (successful loadOptions calls) of one run
MaxAttempts == 2
\* records the stream delivers in one run
MaxRecords == 1
\* longest record text, longest filter term, longest FilterTermSet (matching)
MaxTextLen == 2
MaxTermLen == 1
MaxTerms == 2

\* ------------------------------------------------------------- data
Nil == 0

\* letters of record texts, and letters of filter terms
Alphabet == {"a", "A", "b"}
TermAlphabet == {"A", "b"}

\* all sequences over S of length at most n
RECURSIVE SeqsUpTo(_, _)
SeqsUpTo(S, n) ==
    IF n = 0 THEN {<<>>}
    ELSE LET shorter == SeqsUpTo(S, n - 1)
         IN  shorter \cup {Append(s, x) : s \in shorter, x \in S}

AllTexts == SeqsUpTo(Alphabet, MaxTextLen)
AllTerms == SeqsUpTo(TermAlphabet, MaxTermLen)
AllTermLists == SeqsUpTo(AllTerms, MaxTerms)

\* what the provider and the stream deliver in the pipeline specification
ProviderLists == {<< <<"a">> >>, << <<"B">>, <<"a">> >>}
StreamTexts == {<<"A", "b">>}

\* strings.Join(options, ",") (twitter.go 108)
RECURSIVE JoinTerms(_)
JoinTerms(F) ==
    IF F = <<>> THEN <<>>
    ELSE IF Len(F) = 1 THEN F[1]
    ELSE F[1] \o <<",">> \o JoinTerms(Tail(F))

\* url.QueryEscape on the characters that occur: letters stay, "," is %2C
EscapeChar(c) == IF c = "," THEN <<"%", "2", "C">> ELSE <<c>>

RECURSIVE QueryEscape(_)
QueryEscape(s) ==
    IF s = <<>> THEN <<>> ELSE EscapeChar(Head(s)) \o QueryEscape(Tail(s))

\* url.Values{"track": v}.Encode() (twitter.go 107-111)
FormEncode(v) == <<"t", "r", "a", "c", "k", "=">> \o QueryEscape(v)

\* strings.ToLower, on one character and on a string
LowerChar(c) == CASE c = "A" -> "a" [] c = "B" -> "b" [] OTHER -> c
ToLower(s) == [i \in 1..Len(s) |-> LowerChar(s[i])]

\* strings.Contains(s, sub)
Contains(s, sub) ==
    \E i \in 1..(Len(s) + 1) :
        /\ i + Len(sub) - 1 <= Len(s)
        /\ \A j \in 1..Len(sub) : s[i + j - 1] = sub[j]

VARIABLES
    pc,             \* goroutine -> its position in the code
    proc,           \* "running" | "panic" | "fatal" | "exited": the process
    stop,           \* main.go 77, guarded by stoplock
    sigChan,        \* signalChan, capacity 1: number of buffered signals
    stopChan,       \* stopChan, capacity 1
    twitterStopped, \* stoppedchan of startTwitterStream, capacity 1
    pubStopped,     \* stopchan of publishVotes, capacity 1
    votesClosed,    \* close(votes) has run
    conn,           \* twitter.go 25: the tracked connection (Nil or an id)
    readerG,        \* twitter.go 26: the package-level reader
    netc,           \* dial's local netc, opened and not yet stored
    opened,         \* connections ever opened
    closed,         \* connections on which Close has been called
    body,           \* readFromTwitter's local reader := resp.Body
    attempt,        \* number of the current connection attempt
    authDone,       \* authSetUpOnce has run
    options,        \* readFromTwitter's options
    provided,       \* what loadOptions returned in this attempt
    reqBody,        \* body of this attempt's POST request
    rec,            \* text of the record decoded last
    idx,            \* position of the range loop over options
    emitted,        \* votes sent for the record decoded last
    nRecords,       \* records delivered so far
    vote,           \* the publisher's loop variable
    sent,           \* every vote put on the votes channel, in order
    published,      \* every vote handed to pub.Publish, in order
    credsOK,        \* the TWITTER_* environment variables are set
    hist            \* counts of what has happened (history)

connVars == <<conn, readerG, netc, opened, closed>>
chanVars == <<sigChan, stopChan, twitterStopped, pubStopped, votesClosed>>
readVars == <<body, attempt, authDone, options, provided, reqBody, rec, idx, emitted,
              nRecords>>
pubVars == <<vote, sent, published>>
envVars == <<credsOK>>
vars == <<pc, proc, stop, chanVars, connVars, readVars, pubVars, envVars, hist>>

Tasks == {"M", "L", "F", "R", "P"}

Running == proc = "running"

Goto(t, loc) == pc' = [pc EXCEPT ![t] = loc]

Bump(field) == hist' = [hist EXCEPT ![field] = IF @ < 2 THEN @ + 1 ELSE @]

\* ------------------------------------------------------------- initial state
\* main.go 76-80: the flag is false, the channels are empty, the listener
\* goroutine is started first; twitter.go 24-31: no connection, no reader.
Init ==
    /\ pc = [t \in Tasks |->
                CASE t = "M" -> "m_dialdb" [] t = "L" -> "l_wait" [] OTHER -> "idle"]
    /\ proc = "running"
    /\ stop = FALSE
    /\ sigChan = 0 /\ stopChan = 0 /\ twitterStopped = 0 /\ pubStopped = 0
    /\ votesClosed = FALSE
    /\ conn = Nil /\ readerG = Nil /\ netc = Nil /\ opened = {} /\ closed = {}
    /\ body = Nil /\ attempt = 0 /\ authDone = FALSE
    /\ options = <<>> /\ provided = <<>> /\ reqBody = <<>>
    /\ rec = <<>> /\ idx = 0 /\ emitted = <<>> /\ nRecords = 0
    /\ vote = <<>> /\ sent = <<>> /\ published = <<>>
    /\ credsOK \in BOOLEAN
    /\ hist = [stopWrites |-> 0, notifies |-> 0, listenerCloses |-> 0,
               refreshAfterStop |-> 0, closedByL |-> Nil, closedByF |-> Nil,
               failed |-> FALSE]

\* ------------------------------------------------------------- environment
\* The operator sends SIGINT/SIGTERM, any number of times; signal.Notify
\* (main.go 89) delivers it to signalChan without blocking: a signal that
\* finds the buffer full is lost and changes nothing.
Signal ==
    /\ Running
    /\ sigChan = 0
    /\ sigChan' = 1
    /\ UNCHANGED <<pc, proc, stop, stopChan, twitterStopped, pubStopped, votesClosed,
                   connVars, readVars, pubVars, credsOK, hist>>

\* ------------------------------------------------------------- closeConn
\* net.Conn.Close: closing a closed connection returns an error, which both
\* callers drop; nothing else happens.
CloseHandle(c, cl) == cl \cup {c}

\* twitter.go 59-61: reader is the package-level variable.
CloseReader(cl) == IF readerG # Nil THEN CloseHandle(readerG, cl) ELSE cl

\* what the end of a closeConn call records: who called, with the flag set
\* or not, and the handle the call closed (Nil: none)
CallDone(t, h) ==
    [hist EXCEPT
        !["listenerCloses"] = IF t = "L" /\ @ < 2 THEN @ + 1 ELSE @,
        !["refreshAfterStop"] = IF t = "F" /\ stop /\ @ < 2 THEN @ + 1 ELSE @,
        !["closedByL"] = IF t = "L" THEN h ELSE @,
        !["closedByF"] = IF t = "F" THEN h ELSE @]

\* twitter.go 56: if conn != nil. With no connection tracked the call goes on
\* to lines 59-61 and returns.
CloseConnCheck(t, from, mid, after) ==
    /\ Running
    /\ pc[t] = from
    /\ IF conn # Nil
       THEN /\ Goto(t, mid)
            /\ UNCHANGED <<closed, hist>>
       ELSE /\ Goto(t, after)
            /\ closed' = CloseReader(closed)
            /\ hist' = CallDone(t, Nil)
    /\ UNCHANGED <<proc, stop, chanVars, conn, readerG, netc, opened,
                   readVars, pubVars, envVars>>

\* a closeConn in which closing a closed connection is fatal
CloseConnCloseStrict(t, mid, after) ==
    /\ Running
    /\ pc[t] = mid
    /\ IF conn = Nil \/ conn \in closed
       THEN /\ proc' = "panic"
            /\ UNCHANGED <<pc, closed, hist>>
       ELSE /\ closed' = CloseReader(CloseHandle(conn, closed))
            /\ Goto(t, after)
            /\ hist' = CallDone(t, conn)
            /\ UNCHANGED proc
    /\ UNCHANGED <<stop, chanVars, conn, readerG, netc, opened,
                   readVars, pubVars, envVars>>

\* twitter.go 57: conn.Close() reads conn again; on a nil interface the call
\* is a nil dereference and the runtime ends the process. Then lines 59-61.
CloseConnClose(t, mid, after) ==
    /\ Running
    /\ pc[t] = mid
    /\ IF conn = Nil
       THEN /\ proc' = "panic"
            /\ UNCHANGED <<pc, closed, hist>>
       ELSE /\ closed' = CloseReader(CloseHandle(conn, closed))
            /\ Goto(t, after)
            /\ hist' = CallDone(t, conn)
            /\ UNCHANGED proc
    /\ UNCHANGED <<stop, chanVars, conn, readerG, netc, opened,
                   readVars, pubVars, envVars>>

\* ------------------------------------------------------------- listener
\* main.go 81: <-signalChan
ListenerReceive ==
    /\ Running
    /\ pc["L"] = "l_wait"
    /\ sigChan = 1
    /\ sigChan' = 0
    /\ Goto("L", "l_setstop")
    /\ UNCHANGED <<proc, stop, stopChan, twitterStopped, pubStopped, votesClosed,
                   connVars, readVars, pubVars, envVars, hist>>

\* a listener that calls closeConn right after setting the flag
ListenerSetStopThenClose ==
    /\ Running
    /\ pc["L"] = "l_setstop"
    /\ stop' = TRUE
    /\ Bump("stopWrites")
    /\ Goto("L", "l_cc_check")
    /\ UNCHANGED <<proc, chanVars, connVars, readVars, pubVars, envVars>>

\* main.go 82-84: stop = true under stoplock
ListenerSetStop ==
    /\ Running
    /\ pc["L"] = "l_setstop"
    /\ stop' = TRUE
    /\ Bump("stopWrites")
    /\ Goto("L", "l_notify")
    /\ UNCHANGED <<proc, chanVars, connVars, readVars, pubVars, envVars>>

\* main.go 86: stopChan <- struct{}{} (capacity 1: blocks while full)
ListenerNotify ==
    /\ Running
    /\ pc["L"] = "l_notify"
    /\ stopChan = 0
    /\ stopChan' = 1
    /\ Bump("notifies")
    /\ Goto("L", "l_cc_check")
    /\ UNCHANGED <<proc, stop, sigChan, twitterStopped, pubStopped, votesClosed,
                   connVars, readVars, pubVars, envVars>>

\* a listener that, finding no connection, goes back to wait for a signal
ListenerCloseCheckAgain == CloseConnCheck("L", "l_cc_check", "l_cc_close", "l_wait")

\* main.go 87: closeConn(), after which the goroutine ends
ListenerCloseCheck == CloseConnCheck("L", "l_cc_check", "l_cc_close", "l_done")
\* a listener that goes back to wait for the next signal
ListenerCloseCloseAgain == CloseConnClose("L", "l_cc_close", "l_wait")


ListenerCloseClose == CloseConnClose("L", "l_cc_close", "l_done")

\* ------------------------------------------------------------- refresher
\* a refresher that looks at the flag first and closes only if it is unset
RefresherWakeChecked ==
    /\ Running
    /\ pc["F"] = "f_sleep"
    /\ Goto("F", IF stop THEN "f_done" ELSE "f_cc_check")
    /\ UNCHANGED <<proc, stop, chanVars, connVars, readVars, pubVars, envVars, hist>>

\* main.go 101: time.Sleep(1 * time.Minute) returns
RefresherWake ==
    /\ Running
    /\ pc["F"] = "f_sleep"
    /\ Goto("F", "f_cc_check")
    /\ UNCHANGED <<proc, stop, chanVars, connVars, readVars, pubVars, envVars, hist>>

\* main.go 102: closeConn()
RefresherCloseCheck == CloseConnCheck("F", "f_cc_check", "f_cc_close", "f_stopcheck")

\* main.go 102: closeConn() at its conn.Close()
RefresherCloseClose == CloseConnClose("F", "f_cc_close", "f_stopcheck")

\* a refresher that never looks at the flag
RefresherStopCheckNever ==
    /\ Running
    /\ pc["F"] = "f_stopcheck"
    /\ Goto("F", "f_sleep")
    /\ hist' = [hist EXCEPT !["closedByF"] = Nil]
    /\ UNCHANGED <<proc, stop, chanVars, connVars, readVars, pubVars, envVars>>

\* main.go 103-108: read stop under stoplock; return if set
RefresherStopCheck ==
    /\ Running
    /\ pc["F"] = "f_stopcheck"
    /\ Goto("F", IF stop THEN "f_done" ELSE "f_sleep")
    /\ hist' = [hist EXCEPT !["closedByF"] = Nil]
    /\ UNCHANGED <<proc, stop, chanVars, connVars, readVars, pubVars, envVars>>

\* ------------------------------------------------------------- stream reader
\* twitter.go 177-181: select on stopchan with a default branch
ReaderSelect ==
    /\ Running
    /\ pc["R"] = "r_select"
    /\ IF stopChan = 1
       THEN /\ stopChan' = 0
            /\ Goto("R", "r_return")
       ELSE /\ Goto("R", "r_load")
            /\ UNCHANGED stopChan
    /\ UNCHANGED <<proc, stop, sigChan, twitterStopped, pubStopped, votesClosed,
                   connVars, readVars, pubVars, envVars, hist>>

\* twitter.go 173-175: the deferred send on stoppedchan (capacity 1)
ReaderReturn ==
    /\ Running
    /\ pc["R"] = "r_return"
    /\ twitterStopped = 0
    /\ twitterStopped' = 1
    /\ Goto("R", "r_done")
    /\ UNCHANGED <<proc, stop, sigChan, stopChan, pubStopped, votesClosed,
                   connVars, readVars, pubVars, envVars, hist>>

\* a reader that gives up for good when loadOptions fails
ReaderLoadFailStops ==
    /\ Running
    /\ pc["R"] = "r_load"
    /\ Goto("R", "r_return")
    /\ UNCHANGED <<proc, stop, chanVars, connVars, readVars, pubVars, envVars, hist>>

\* a reader for which a failing loadOptions is fatal
ReaderLoadFailFatal ==
    /\ Running
    /\ pc["R"] = "r_load"
    /\ proc' = "fatal"
    /\ UNCHANGED <<pc, stop, chanVars, connVars, readVars, pubVars, envVars, hist>>

\* twitter.go 93-97: loadOptions fails: log, return
ReaderLoadFail ==
    /\ Running
    /\ pc["R"] = "r_load"
    /\ Goto("R", "r_sleep")
    /\ UNCHANGED <<proc, stop, chanVars, connVars, readVars, pubVars, envVars, hist>>

\* a request that tracks only the first term loadOptions returned
ReaderLoadOkFirstTerm(opts) ==
    /\ Running
    /\ pc["R"] = "r_load"
    /\ attempt < MaxAttempts
    /\ attempt' = attempt + 1
    /\ options' = opts
    /\ provided' = opts
    /\ reqBody' = FormEncode(JoinTerms(<<Head(opts)>>))
    /\ Goto("R", "r_auth")
    /\ UNCHANGED <<proc, stop, chanVars, connVars, body, authDone, rec, idx, emitted,
                   nRecords, pubVars, envVars, hist>>

\* twitter.go 93, 100-115: loadOptions returns opts; the request is built
ReaderLoadOk(opts) ==
    /\ Running
    /\ pc["R"] = "r_load"
    /\ attempt < MaxAttempts
    /\ attempt' = attempt + 1
    /\ options' = opts
    /\ provided' = opts
    /\ reqBody' = FormEncode(JoinTerms(opts))
    /\ Goto("R", "r_auth")
    /\ UNCHANGED <<proc, stop, chanVars, connVars, body, authDone, rec, idx, emitted,
                   nRecords, pubVars, envVars, hist>>

\* twitter.go 152-160, 64-87: authSetUpOnce; envdecode fails -> log.Fatalln
ReaderAuth ==
    /\ Running
    /\ pc["R"] = "r_auth"
    /\ IF authDone \/ credsOK
       THEN /\ authDone' = TRUE
            /\ Goto("R", "r_dial_close")
            /\ UNCHANGED proc
       ELSE /\ proc' = "fatal"
            /\ UNCHANGED <<pc, authDone>>
    /\ UNCHANGED <<stop, chanVars, connVars, body, attempt, options, provided, reqBody, rec, idx, emitted,
                   nRecords, pubVars, envVars, hist>>

\* a dial that forgets the tracked connection without closing it
ReaderDialCloseLeak ==
    /\ Running
    /\ pc["R"] = "r_dial_close"
    /\ Goto("R", IF conn # Nil THEN "r_dial_clear" ELSE "r_dial_open")
    /\ UNCHANGED <<proc, stop, chanVars, connVars, readVars, pubVars, envVars, hist>>

\* twitter.go 34-35 (httpClient.Do calls dial): close the tracked connection
ReaderDialClose ==
    /\ Running
    /\ pc["R"] = "r_dial_close"
    /\ IF conn # Nil
       THEN /\ closed' = CloseHandle(conn, closed)
            /\ Goto("R", "r_dial_clear")
       ELSE /\ Goto("R", "r_dial_open")
            /\ UNCHANGED closed
    /\ UNCHANGED <<proc, stop, chanVars, conn, readerG, netc, opened,
                   readVars, pubVars, envVars, hist>>

\* twitter.go 36: conn = nil
ReaderDialClear ==
    /\ Running
    /\ pc["R"] = "r_dial_clear"
    /\ conn' = Nil
    /\ Goto("R", "r_dial_open")
    /\ UNCHANGED <<proc, stop, chanVars, readerG, netc, opened, closed,
                   readVars, pubVars, envVars, hist>>

\* twitter.go 38-41: net.DialTimeout fails; Do and makeRequest fail (119-122)
ReaderDialFail ==
    /\ Running
    /\ pc["R"] = "r_dial_open"
    /\ Goto("R", "r_sleep")
    /\ options' = <<>> /\ provided' = <<>> /\ reqBody' = <<>>
    /\ UNCHANGED <<proc, stop, chanVars, connVars, body, attempt, authDone, rec, idx,
                   emitted, nRecords, pubVars, envVars, hist>>

\* twitter.go 38: net.DialTimeout opens a connection
ReaderDialOpen ==
    /\ Running
    /\ pc["R"] = "r_dial_open"
    /\ netc' = attempt
    /\ opened' = opened \cup {attempt}
    /\ Goto("R", "r_dial_store")
    /\ UNCHANGED <<proc, stop, chanVars, conn, readerG, closed,
                   readVars, pubVars, envVars, hist>>

\* twitter.go 42-43: conn = netc
ReaderDialStore ==
    /\ Running
    /\ pc["R"] = "r_dial_store"
    /\ conn' = netc
    /\ netc' = Nil
    /\ Goto("R", "r_request")
    /\ UNCHANGED <<proc, stop, chanVars, readerG, opened, closed,
                   readVars, pubVars, envVars, hist>>

\* twitter.go 165, 119-122: the request fails (closed connection, handshake,
\* network): log, return
ReaderRequestFail ==
    /\ Running
    /\ pc["R"] = "r_request"
    /\ Goto("R", "r_sleep")
    /\ options' = <<>> /\ provided' = <<>> /\ reqBody' = <<>>
    /\ UNCHANGED <<proc, stop, chanVars, connVars, body, attempt, authDone, rec, idx,
                   emitted, nRecords, pubVars, envVars, hist>>

\* twitter.go 165, 125-126: the response arrives; reader := resp.Body (a local)
ReaderRequestOk ==
    /\ Running
    /\ pc["R"] = "r_request"
    /\ conn \notin closed
    /\ body' = conn
    /\ Goto("R", "r_decode")
    /\ UNCHANGED <<proc, stop, chanVars, connVars, attempt, authDone, options, provided, reqBody, rec, idx,
                   emitted, nRecords, pubVars, envVars, hist>>

\* twitter.go 132: Decode returns a record (from the connection, or from what
\* the decoder had buffered before the connection was closed)
ReaderDecodeRecord(text) ==
    /\ Running
    /\ pc["R"] = "r_decode"
    /\ nRecords < MaxRecords
    /\ nRecords' = nRecords + 1
    /\ rec' = text
    /\ idx' = 1
    /\ emitted' = <<>>
    /\ Goto("R", "r_match")
    /\ UNCHANGED <<proc, stop, chanVars, connVars, body, attempt, authDone, options, provided, reqBody,
                   pubVars, envVars, hist>>

\* a decode loop that goes on after an error (continue for break)
ReaderDecodeFailContinue ==
    /\ Running
    /\ pc["R"] = "r_decode"
    /\ body \in closed
    /\ UNCHANGED vars

\* twitter.go 132-134: Decode reads from the closed connection: error, break
ReaderDecodeFail ==
    /\ Running
    /\ pc["R"] = "r_decode"
    /\ body \in closed
    /\ body' = Nil
    /\ options' = <<>> /\ provided' = <<>> /\ reqBody' = <<>>
    /\ Goto("R", "r_sleep")
    /\ UNCHANGED <<proc, stop, chanVars, connVars, attempt, authDone, rec, idx,
                   emitted, nRecords, pubVars, envVars, hist>>

\* twitter.go 132-134: the stream ends or sends a malformed record: error,
\* break; the body is left open
ReaderDecodeEOF ==
    /\ Running
    /\ pc["R"] = "r_decode"
    /\ body \notin closed
    /\ body' = Nil
    /\ options' = <<>> /\ provided' = <<>> /\ reqBody' = <<>>
    /\ Goto("R", "r_sleep")
    /\ UNCHANGED <<proc, stop, chanVars, connVars, attempt, authDone, rec, idx,
                   emitted, nRecords, pubVars, envVars, hist>>

\* a test that lower-cases the term only
MatchesTextAsIs(text, option) == Contains(text, ToLower(option))

\* twitter.go 139-142: the test of one option against the record
Matches(text, option) == Contains(ToLower(text), ToLower(option))

\* twitter.go 138-146: one step of the range loop over options; the record t
\* and the loop's position go out of scope when the loop ends
ReaderMatch ==
    /\ Running
    /\ pc["R"] = "r_match"
    /\ IF idx > Len(options)
       THEN /\ Goto("R", "r_decode")
            /\ idx' = 0 /\ rec' = <<>> /\ emitted' = <<>>
       ELSE IF Matches(rec, options[idx])
            THEN /\ Goto("R", "r_send")
                 /\ UNCHANGED <<idx, rec, emitted>>
            ELSE /\ idx' = idx + 1
                 /\ UNCHANGED <<pc, rec, emitted>>
    /\ UNCHANGED <<proc, stop, chanVars, connVars, body, attempt, authDone, options, provided, reqBody,
                   nRecords, pubVars, envVars, hist>>

\* twitter.go 144 and main.go 65: votes <- option meets the publisher's
\* receive (votes is unbuffered)
VoteHandoff ==
    /\ Running
    /\ pc["R"] = "r_send"
    /\ pc["P"] = "p_recv"
    /\ ~votesClosed
    /\ vote' = options[idx]
    /\ sent' = Append(sent, options[idx])
    /\ emitted' = Append(emitted, options[idx])
    /\ idx' = idx + 1
    /\ pc' = [pc EXCEPT !["R"] = "r_match", !["P"] = "p_publish"]
    /\ UNCHANGED <<proc, stop, chanVars, connVars, body, attempt, authDone, options, provided, reqBody, rec,
                   nRecords, published, envVars, hist>>

\* twitter.go 185: time.Sleep(10 * time.Second) returns
ReaderBackoff ==
    /\ Running
    /\ pc["R"] = "r_sleep"
    /\ Goto("R", "r_select")
    /\ UNCHANGED <<proc, stop, chanVars, connVars, readVars, pubVars, envVars, hist>>

\* ------------------------------------------------------------- publisher
\* what a Publish call leaves in the history: whether some call has failed
PublishDone(ok) == [hist EXCEPT !["failed"] = @ \/ ~ok]

\* a publisher that calls Publish again with the same vote when it fails
PublisherPublishRetry(ok) ==
    /\ Running
    /\ pc["P"] = "p_publish"
    /\ published' = Append(published, vote)
    /\ hist' = PublishDone(ok)
    /\ IF ok
       THEN vote' = <<>> /\ Goto("P", "p_recv")
       ELSE UNCHANGED <<vote, pc>>
    /\ UNCHANGED <<proc, stop, chanVars, connVars, readVars, sent, envVars>>

\* main.go 66: pub.Publish("votes", []byte(vote)) succeeds (ok) or fails; its
\* error is not looked at, and the range goes on to the next vote
PublisherPublish(ok) ==
    /\ Running
    /\ pc["P"] = "p_publish"
    /\ published' = Append(published, vote)
    /\ hist' = PublishDone(ok)
    /\ vote' = <<>>
    /\ Goto("P", "p_recv")
    /\ UNCHANGED <<proc, stop, chanVars, connVars, readVars, sent, envVars>>

\* a publisher that stops without waiting for the queue to be closed
PublisherDrainedEarly ==
    /\ Running
    /\ pc["P"] = "p_recv"
    /\ Goto("P", "p_stop")
    /\ UNCHANGED <<proc, stop, chanVars, connVars, readVars, pubVars, envVars, hist>>

\* main.go 65: range votes ends once votes is closed
PublisherDrained ==
    /\ Running
    /\ pc["P"] = "p_recv"
    /\ votesClosed
    /\ Goto("P", "p_stop")
    /\ UNCHANGED <<proc, stop, chanVars, connVars, readVars, pubVars, envVars, hist>>

\* main.go 68-71: pub.Stop(); stopchan <- struct{}{}
PublisherStop ==
    /\ Running
    /\ pc["P"] = "p_stop"
    /\ pubStopped = 0
    /\ pubStopped' = 1
    /\ Goto("P", "p_done")
    /\ UNCHANGED <<proc, stop, sigChan, stopChan, twitterStopped, votesClosed,
                   connVars, readVars, pubVars, envVars, hist>>

\* ------------------------------------------------------------- main
\* main.go 90-92: dialdb fails -> log.Fatalln
MainDialDbFail ==
    /\ Running
    /\ pc["M"] = "m_dialdb"
    /\ proc' = "fatal"
    /\ UNCHANGED <<pc, stop, chanVars, connVars, readVars, pubVars, envVars, hist>>

\* main.go 90, 96-97: dialdb succeeds; publishVotes starts the publisher
MainStartPublisher ==
    /\ Running
    /\ pc["M"] = "m_dialdb"
    /\ pc' = [pc EXCEPT !["M"] = "m_stream", !["P"] = "p_recv"]
    /\ UNCHANGED <<proc, stop, chanVars, connVars, readVars, pubVars, envVars, hist>>

\* main.go 98: startTwitterStream starts the reader
MainStartStream ==
    /\ Running
    /\ pc["M"] = "m_stream"
    /\ pc' = [pc EXCEPT !["M"] = "m_refresh", !["R"] = "r_select"]
    /\ UNCHANGED <<proc, stop, chanVars, connVars, readVars, pubVars, envVars, hist>>

\* main.go 99-110: the refresher goroutine is started
MainStartRefresher ==
    /\ Running
    /\ pc["M"] = "m_refresh"
    /\ pc' = [pc EXCEPT !["M"] = "m_wait_reader", !["F"] = "f_sleep"]
    /\ UNCHANGED <<proc, stop, chanVars, connVars, readVars, pubVars, envVars, hist>>

\* a main that does not wait for the reader
MainWaitReaderNoWait ==
    /\ Running
    /\ pc["M"] = "m_wait_reader"
    /\ twitterStopped' = 0
    /\ Goto("M", "m_close")
    /\ UNCHANGED <<proc, stop, sigChan, stopChan, pubStopped, votesClosed,
                   connVars, readVars, pubVars, envVars, hist>>

\* main.go 111: <-twitterStoppedChan
MainWaitReader ==
    /\ Running
    /\ pc["M"] = "m_wait_reader"
    /\ twitterStopped = 1
    /\ twitterStopped' = 0
    /\ Goto("M", "m_close")
    /\ UNCHANGED <<proc, stop, sigChan, stopChan, pubStopped, votesClosed,
                   connVars, readVars, pubVars, envVars, hist>>

\* main.go 112: close(votes)
MainCloseVotes ==
    /\ Running
    /\ pc["M"] = "m_close"
    /\ votesClosed' = TRUE
    /\ Goto("M", "m_wait_pub")
    /\ UNCHANGED <<proc, stop, sigChan, stopChan, twitterStopped, pubStopped,
                   connVars, readVars, pubVars, envVars, hist>>

\* main.go 113-114, 93: <-publisherStoppedChan; closedb; main returns and the
\* process ends with every goroutine
MainWaitPublisher ==
    /\ Running
    /\ pc["M"] = "m_wait_pub"
    /\ pubStopped = 1
    /\ pubStopped' = 0
    /\ proc' = "exited"
    /\ Goto("M", "m_done")
    /\ UNCHANGED <<stop, sigChan, stopChan, twitterStopped, votesClosed,
                   connVars, readVars, pubVars, envVars, hist>>

\* ------------------------------------------------------------- specifications
ListenerStep ==
    \/ ListenerReceive \/ ListenerSetStop \/ ListenerNotify
    \/ ListenerCloseCheck \/ ListenerCloseClose

RefresherStep ==
    \/ RefresherWake \/ RefresherCloseCheck \/ RefresherCloseClose
    \/ RefresherStopCheck

\* the reader's steps that wait for nothing but the reader itself, the
\* provider, the dialer or the publisher
ReaderStep ==
    \/ ReaderSelect \/ ReaderReturn \/ ReaderLoadFail
    \/ (\E opts \in ProviderLists : ReaderLoadOk(opts))
    \/ ReaderAuth \/ ReaderDialClose \/ ReaderDialClear \/ ReaderDialFail
    \/ ReaderDialOpen \/ ReaderDialStore \/ ReaderRequestFail \/ ReaderRequestOk
    \/ ReaderDecodeFail \/ ReaderMatch \/ VoteHandoff \/ ReaderBackoff

\* what the stream does of its own accord
StreamStep ==
    \/ (\E text \in StreamTexts : ReaderDecodeRecord(text))
    \/ ReaderDecodeEOF

PublisherStep ==
    \/ (\E ok \in BOOLEAN : PublisherPublish(ok))
    \/ PublisherDrained
    \/ PublisherStop

MainStep ==
    \/ MainDialDbFail \/ MainStartPublisher \/ MainStartStream
    \/ MainStartRefresher \/ MainWaitReader \/ MainCloseVotes \/ MainWaitPublisher

Next ==
    \/ Signal
    \/ ListenerStep
    \/ RefresherStep
    \/ ReaderStep
    \/ StreamStep
    \/ PublisherStep
    \/ MainStep

Spec == Init /\ [][Next]_vars

\* Every goroutine that can take a step eventually takes one (the Go
\* scheduler; timers fire; provider, dialer and sink calls return). Nothing
\* obliges the operator to send a signal or the stream to deliver anything.
Fairness ==
    /\ WF_vars(ListenerStep)
    /\ WF_vars(RefresherStep)
    /\ WF_vars(ReaderStep)
    /\ WF_vars(PublisherStep)
    /\ WF_vars(MainStep)

FairSpec == Init /\ [][Next]_vars /\ Fairness

\* The matching loop on its own: the reader is decoding on its first
\* connection with any FilterTermSet, the stream delivers any text.
InitMatch ==
    /\ pc = [t \in Tasks |->
                CASE t = "M" -> "m_wait_reader" [] t = "L" -> "l_wait"
                  [] t = "F" -> "f_sleep" [] t = "R" -> "r_decode"
                  [] OTHER -> "p_recv"]
    /\ proc = "running"
    /\ stop = FALSE
    /\ sigChan = 0 /\ stopChan = 0 /\ twitterStopped = 0 /\ pubStopped = 0
    /\ votesClosed = FALSE
    /\ conn = 1 /\ readerG = Nil /\ netc = Nil /\ opened = {1} /\ closed = {}
    /\ body = 1 /\ attempt = 1 /\ authDone = TRUE
    /\ options \in AllTermLists
    /\ provided = options /\ reqBody = FormEncode(JoinTerms(options))
    /\ rec = <<>> /\ idx = 0 /\ emitted = <<>> /\ nRecords = 0
    /\ vote = <<>> /\ sent = <<>> /\ published = <<>>
    /\ credsOK = TRUE
    /\ hist = [stopWrites |-> 0, notifies |-> 0, listenerCloses |-> 0,
               refreshAfterStop |-> 0, closedByL |-> Nil, closedByF |-> Nil,
               failed |-> FALSE]

NextMatch ==
    \/ (\E text \in AllTexts : ReaderDecodeRecord(text))
    \/ ReaderMatch
    \/ VoteHandoff
    \/ (\E ok \in BOOLEAN : PublisherPublish(ok))

SpecMatch == InitMatch /\ [][NextMatch]_vars

\* ------------------------------------------------------------- claims
Decoding == pc["R"] \in {"r_decode", "r_match", "r_send"}

InCloseConn(t) == pc[t] \in {"l_cc_check", "l_cc_close", "f_cc_check", "f_cc_close"}

AtClose(t) == pc[t] \in {"l_cc_close", "f_cc_close"}

\* C1: once the cancellation signal has been received (the flag is set), the
\* stream reader eventually signals "stopped", wherever it was and however
\* the refresher's wake-ups fall, unless the process has died meanwhile.
ShutdownLiveness == stop ~> (pc["R"] = "r_done" \/ ~Running)

\* C2: the votes channel is closed only after the reader has signalled
\* stopped, and the reader is never sending on it once it is closed.
QueueClosedAfterReaderStopped ==
    votesClosed => pc["R"] = "r_done" /\ pc["M"] \in {"m_wait_pub", "m_done"}

QueueClosedWitness == votesClosed /\ Len(sent) > 0 /\ stop

\* C3: the publisher has signalled stopped only when the queue is closed and
\* every vote ever put on it has been handed to the sink once, in order.
PublisherStopsDrained ==
    (pc["P"] = "p_done" \/ pubStopped = 1) => votesClosed /\ published = sent

PublisherStopsDrainedWitness == pc["P"] = "p_done" /\ Len(published) = 2 /\ stop

\* case-insensitive occurrence of term in text, letter by letter
SameLetter(x, y) ==
    \/ x = y
    \/ {x, y} \in {{"a", "A"}, {"b", "B"}}

Occurs(term, text) ==
    \E off \in 0..Len(text) :
        /\ off + Len(term) <= Len(text)
        /\ \A j \in 1..Len(term) : SameLetter(text[off + j], term[j])

MatchingTerms(F, text) == SelectSeq(F, LAMBDA term : Occurs(term, text))

\* C4: the votes emitted for a record are exactly the terms of F, position by
\* position, that occur in the record's text whatever the case: during the
\* loop those of the positions already visited, at its end those of all of F.
VotesAreMatchingTerms ==
    pc["R"] \in {"r_match", "r_send"} =>
        /\ idx \in 1..(Len(options) + 1)
        /\ emitted = MatchingTerms(SubSeq(options, 1, idx - 1), rec)
        /\ pc["R"] = "r_send" => Occurs(options[idx], rec)

VotesAreMatchingTermsWitness ==
    /\ pc["R"] = "r_match"
    /\ idx > Len(options)
    /\ Len(options) = 2 /\ options[1] = options[2]
    /\ Len(emitted) = 2
    /\ ~Contains(rec, options[1])

\* C5: whenever closeConn runs, or has closed the connection, while the
\* reader is in its decode loop, the reader leaves the loop for its back-off.
ForceCloseEndsDecode ==
    (Decoding /\ (body \in closed \/ InCloseConn("L") \/ InCloseConn("F")))
        ~> (pc["R"] = "r_sleep")

ForceCloseEndsDecodeWitness ==
    Decoding /\ body # Nil /\ body \in closed /\ hist.closedByF = body

\* C6: closeConn never reaches its conn.Close() with the handle cleared by a
\* concurrent dial after the nil check.
CloseConnRaceFree == \A t \in {"L", "F"} : AtClose(t) => conn # Nil

\* C7 (as claimed): the refresher completes no closeConn call with the flag set.
RefresherNoCloseAfterStop == hist.refreshAfterStop = 0

\* C7 (amended): with the flag set the refresher completes at most one
\* closeConn call, the one of the wake in which it then reads the flag, and
\* it has ended only with the flag set.
RefresherOneCloseAfterStop ==
    /\ hist.refreshAfterStop <= 1
    /\ pc["F"] = "f_done" => stop
    /\ (hist.refreshAfterStop = 1 => pc["F"] \in {"f_stopcheck", "f_done"})

RefresherOneCloseAfterStopWitness ==
    hist.refreshAfterStop = 1 /\ pc["F"] = "f_done"

\* C8: closeConn with nothing tracked changes nothing and does not fail;
\* conn.Close() on a tracked handle never fails, closed already or not; and a
\* closeConn on a handle already closed leaves the connection state as it was.
ForceCloseIdempotent ==
    [][/\ conn # Nil => proc' # "panic"
       /\ \A t \in {"L", "F"} :
            /\ (pc[t] \in {"l_cc_check", "f_cc_check"} /\ pc'[t] # pc[t]
                    /\ conn = Nil /\ readerG = Nil)
                 => UNCHANGED <<proc, connVars>>
            /\ (AtClose(t) /\ pc'[t] # pc[t] /\ conn \in closed)
                 => UNCHANGED <<proc, connVars>>]_vars

ForceCloseIdempotentWitness ==
    /\ conn # Nil
    /\ hist.closedByL = conn
    /\ hist.closedByF = conn

\* C9: at most one connection is open, and an open connection is the tracked
\* one (or the one dial has just opened and is about to store).
OneOpenConnection ==
    /\ Cardinality(opened \ closed) <= 1
    /\ \A c \in opened \ closed : c = conn \/ c = netc

OneOpenConnectionWitness ==
    /\ Cardinality(opened) = 2
    /\ conn \in opened \ closed
    /\ pc["R"] = "r_decode"

\* C10: the flag never goes back to false, only the listener's write sets it,
\* and the listener writes it, notifies and force-closes at most once however
\* many signals arrive.
StopStateMonotonic ==
    [][/\ stop => stop'
       /\ stop' # stop => pc["L"] = "l_setstop" /\ pc'["L"] = "l_notify"
       /\ hist'.stopWrites = 0 => ~stop'
       /\ hist'.stopWrites <= 1
       /\ hist'.notifies <= 1
       /\ hist'.listenerCloses <= 1]_vars

StopStateMonotonicWitness == stop /\ pc["L"] = "l_done" /\ sigChan = 1

\* reading a request body back: undo the escaping, cut at the commas
RECURSIVE QueryUnescape(_)
QueryUnescape(s) ==
    IF s = <<>> THEN <<>>
    ELSE IF Len(s) >= 3 /\ SubSeq(s, 1, 3) = <<"%", "2", "C">>
         THEN <<",">> \o QueryUnescape(SubSeq(s, 4, Len(s)))
    ELSE <<Head(s)>> \o QueryUnescape(Tail(s))

RECURSIVE SplitCommas(_, _)
SplitCommas(s, cur) ==
    IF s = <<>> THEN <<cur>>
    ELSE IF Head(s) = "," THEN <<cur>> \o SplitCommas(Tail(s), <<>>)
    ELSE SplitCommas(Tail(s), Append(cur, Head(s)))

TrackedTerms(b) ==
    SplitCommas(QueryUnescape(SubSeq(b, 7, Len(b))), <<>>)

InAttempt ==
    pc["R"] \in {"r_auth", "r_dial_close", "r_dial_clear", "r_dial_open",
                 "r_dial_store", "r_request", "r_decode", "r_match", "r_send"}

\* C11: throughout a connection attempt the request body is the "track"
\* parameter holding exactly the terms the provider returned at the start of
\* that attempt, comma-joined, and the list the records are matched against is
\* that same list; a later attempt uses what the provider returned then.
RequestTracksFetchedTerms ==
    InAttempt =>
        /\ SubSeq(reqBody, 1, 6) = <<"t", "r", "a", "c", "k", "=">>
        /\ TrackedTerms(reqBody) = provided
        /\ options = provided

RequestTracksFetchedTermsWitness ==
    /\ attempt = 2
    /\ pc["R"] = "r_decode"
    /\ provided = << <<"a">> >>
    /\ sent = << <<"B">>, <<"a">> >>

\* C12 as stated: the listener's closeConn call comes before its send on the
\* stop channel, so once the notification has been sent the call has been made.
ForceCloseBeforeNotify == hist.notifies >= 1 => hist.listenerCloses >= 1

\* C12: the listener sets the flag, then sends the stop notification, then
\* calls closeConn: the listener is in or past closeConn exactly when the
\* notification has been sent, and the notification is sent with the flag set.
NotifyBeforeForceClose ==
    /\ hist.notifies >= 1 => stop /\ hist.stopWrites = 1
    /\ pc["L"] \in {"l_cc_check", "l_cc_close", "l_done"} <=> hist.notifies = 1
    /\ hist.listenerCloses >= 1 => hist.notifies = 1
    /\ hist.closedByL # Nil => hist.notifies = 1

NotifyBeforeForceCloseWitness ==
    /\ hist.listenerCloses = 1
    /\ hist.notifies = 1
    /\ hist.closedByL # Nil
    /\ pc["L"] = "l_done"

\* C13: the reader never enters its back-off sleep when the flag is already
\* set and the stop notification is already waiting in the channel: it goes to
\* stopped instead.
NoBackoffOnceStopped ==
    [][(pc["R"] # "r_sleep" /\ pc'["R"] = "r_sleep") => ~(stop /\ stopChan = 1)]_vars

\* C14: the reader leaves its loop only from the select that receives the stop
\* notification, hence only with the flag set, never from a failed iteration;
\* it sends on its stopped channel in that one step after leaving, and once
\* it has sent it stays stopped, so it sends exactly once.
ReaderStopsOnlyOnStop ==
    [][/\ pc'["R"] \in {"r_return", "r_done"} => stop'
       /\ (pc["R"] # "r_return" /\ pc'["R"] = "r_return") =>
              pc["R"] = "r_select" /\ stopChan = 1 /\ stopChan' = 0
       /\ (pc["R"] # "r_done" /\ pc'["R"] = "r_done") =>
              pc["R"] = "r_return" /\ twitterStopped = 0 /\ twitterStopped' = 1
       /\ twitterStopped' > twitterStopped =>
              pc["R"] = "r_return" /\ pc'["R"] = "r_done"
       /\ pc["R"] = "r_done" => pc'["R"] = "r_done"]_vars

ReaderStopsOnlyOnStopWitness ==
    /\ pc["R"] = "r_done"
    /\ twitterStopped = 1
    /\ stop
    /\ attempt = 2

\* C15: a wake of the refresher goes from the sleep into closeConn whatever the
\* flag says; one closeConn call is made (it closes the tracked connection if
\* there is one) and only when it has returned is the flag read; the refresher
\* then ends for good if the flag is set and sleeps again if not.
RefresherClosesThenChecks ==
    [][/\ (pc["F"] = "f_sleep" /\ pc'["F"] # "f_sleep") => pc'["F"] = "f_cc_check"
       /\ (pc["F"] = "f_cc_check" /\ pc'["F"] # "f_cc_check") =>
              /\ pc'["F"] = IF conn = Nil THEN "f_stopcheck" ELSE "f_cc_close"
              /\ hist.closedByF = Nil
       /\ (pc["F"] = "f_cc_close" /\ pc'["F"] # "f_cc_close") =>
              /\ pc'["F"] = "f_stopcheck"
              /\ conn \in closed'
              /\ hist'.closedByF = conn
       /\ (pc["F"] = "f_stopcheck" /\ pc'["F"] # "f_stopcheck") =>
              pc'["F"] = IF stop THEN "f_done" ELSE "f_sleep"
       /\ pc["F"] = "f_done" => pc'["F"] = "f_done"]_vars

RefresherClosesThenChecksWitness ==
    /\ pc["F"] = "f_stopcheck"
    /\ stop
    /\ hist.closedByF # Nil
    /\ hist.closedByL # Nil

\* C16: whenever closeConn runs while the reader is in its decode cycle on a
\* response body, the package-level reader is that body, so that the call's
\* reader.Close() closes it.
TrackedReaderIsBody ==
    (Decoding /\ body # Nil /\ (InCloseConn("L") \/ InCloseConn("F"))) =>
        readerG = body

\* C17: a pass of the reader that starts by fetching the terms either gets
\* them or goes straight to the back-off; the step of the failing fetch
\* changes nothing else: no connection is opened, closed or tracked, no vote
\* is sent, the flag and the process are as before, and no fatal exit is
\* taken while the reader is fetching. After the back-off the
\* reader is at its select again, which ends it if the stop notification is
\* there and otherwise fetches the terms anew.
ProviderFailureSkipsIteration ==
    [][/\ (pc["R"] = "r_load" /\ pc'["R"] # "r_load") =>
              pc'["R"] \in {"r_sleep", "r_auth"}
       /\ (pc["R"] = "r_load" /\ proc' = "fatal") => proc = "fatal"
       /\ (pc["R"] = "r_load" /\ pc'["R"] = "r_sleep") =>
              UNCHANGED <<stop, chanVars, connVars, readVars, pubVars, proc>>
       /\ (pc["R"] = "r_sleep" /\ pc'["R"] # "r_sleep") => pc'["R"] = "r_select"
       /\ (pc["R"] = "r_select" /\ pc'["R"] # "r_select") =>
              pc'["R"] = IF stopChan = 1 THEN "r_return" ELSE "r_load"]_vars

ProviderFailureSkipsIterationWitness ==
    /\ pc["R"] = "r_sleep"
    /\ attempt = 0
    /\ stopChan = 1

\* C18: whatever Publish calls have failed, the votes passed to Publish are
\* the votes received from the queue, each once and in queue order, all of
\* them but the one the publisher holds and is about to pass; and the
\* publisher has left its loop only if the queue has been closed.
PublisherForwardsEachOnce ==
    /\ Len(published) <= Len(sent)
    /\ published = SubSeq(sent, 1, Len(published))
    /\ Len(sent) - Len(published) = IF pc["P"] = "p_publish" THEN 1 ELSE 0
    /\ pc["P"] = "p_publish" => vote = sent[Len(sent)]
    /\ pc["P"] \in {"p_stop", "p_done"} => votesClosed

PublisherForwardsEachOnceWitness ==
    /\ hist.failed
    /\ Len(published) = 1
    /\ pc["P"] = "p_publish"
    /\ Len(sent) = 2

\* C19: the process ends on a missing credential only before the publisher,
\* the stream reader and the refresher have been started.
FatalOnlyBeforeTasks ==
    proc = "fatal" => pc["P"] = "idle" /\ pc["R"] = "idle" /\ pc["F"] = "idle"

\* C20: each of the three one-slot channels is empty whenever its one sender
\* is at its send, so no send ever waits: the listener's on the stop channel,
\* the reader's and the publisher's on their stopped channels. The listener
\* is therefore at, in or past its closeConn call as soon as it has sent,
\* wherever the reader is.
SendsNeverBlock ==
    /\ pc["L"] = "l_notify" => stopChan = 0
    /\ pc["R"] = "r_return" => twitterStopped = 0
    /\ pc["P"] = "p_stop" => pubStopped = 0
    /\ (Running /\ pc["L"] = "l_notify") => ENABLED ListenerNotify
    /\ (Running /\ pc["R"] = "r_return") => ENABLED ReaderReturn
    /\ (Running /\ pc["P"] = "p_stop") => ENABLED PublisherStop
    /\ pc["L"] \in {"l_wait", "l_setstop"} => hist.notifies = 0

SendsNeverBlockWitness ==
    /\ pc["L"] = "l_cc_close"
    /\ stopChan = 1
    /\ pc["R"] = "r_send"
    /\ hist.notifies = 1

====
